---- MODULE Spec2Model ----
(***************************************************************************)
(* kuqu: SQL over live Kubernetes resources.                               *)
(*                                                                         *)
(* The module models the bridge between the cluster API and the query      *)
(* engine: discovery of the resource catalog (discover.rs), the parser of  *)
(* the addressing string (url.rs) and the table provider with its          *)
(* execution node (provider.rs).                                           *)
(*                                                                         *)
(* Strings the code inspects character by character (addressing strings,   *)
(* resource names, groups, namespaces) are sequences of one-character      *)
(* strings.  Option<T> is a sequence of length 0 (None) or 1 (Some).       *)
(* Result<T, E> is a record with the field ok.                             *)
(***************************************************************************)
EXTENDS Integers, Sequences, FiniteSets, TLC

VARIABLES
    \* KubernetesTableProviderFactory (provider.rs 52-56)
    api_resources,   \* the catalog handed to the factory
    context,         \* the active context name
    \* one call of KubernetesUrl::parse (url.rs 94-131)
    url,             \* Option: the addressing string of the last call
    kubeconfig,      \* Option: what Kubeconfig::read() returned in that call
    kubeurl          \* Option: the Result the call returned

VARIABLES
    \* one run of DiscoverClient::list_api_resources (discover.rs 31-84)
    dpc,             \* where the run is: "idle", "groups", "grouped", "core_versions", "core", "done", "failed"
    inflight,        \* the requests sent to the API server and not yet answered
    served,          \* the answered requests with their answers, in the order of the answers
    pairs,           \* the group_version strings of the listed groups, flattened
    group_lists,     \* the outputs of the futures of `then`, one per pair, in order
    core_versions,   \* the core versions listed
    core_lists,      \* Option per core version: the output of its future
    discovery        \* Option: the Result list_api_resources returned

VARIABLES
    \* the cluster behind the API server, and one table of it (provider.rs)
    cluster,         \* the objects the server holds, in the order it lists them
    api,             \* Option: the Api that list_api_resources built
    object_list,     \* Option: the Result of api.list
    provider,        \* Option: the Result try_new returned
    scan_args,       \* Option: the arguments of the call of scan
    exec,            \* Option: the KubernetesExec that scan returned
    batch            \* Option: the Result of record_batch_from_ndjson in execute

parseVars == <<api_resources, context, url, kubeconfig, kubeurl>>
tableVars == <<cluster, api, object_list, provider, scan_args, exec, batch>>
discVars == <<dpc, inflight, served, pairs, group_lists, core_versions, core_lists, discovery>>

vars == <<parseVars, discVars, tableVars>>

-----------------------------------------------------------------------------
(* Option and Result *)

None == <<>>
Some(x) == <<x>>
IsSome(o) == Len(o) = 1
Unwrap(o) == o[1]

Ok(v) == [ok |-> TRUE, val |-> v]
Err(e) == [ok |-> FALSE, err |-> e]

-----------------------------------------------------------------------------
(* Bounds *)

MaxUrlLen == 4
MaxCatalog == 2
MaxContexts == 2
MaxGroups == 2
MaxCoreVersions == 2
MaxObjects == 2
MaxProjection == 2
MaxChunks == 2

-----------------------------------------------------------------------------
(* Strings *)

Chars == {"a", ".", "/"}

RECURSIVE StringsUpTo(_)
StringsUpTo(n) ==
    IF n = 0 THEN {<<>>}
    ELSE LET shorter == StringsUpTo(n - 1)
         IN  shorter \cup {Append(s, c) : s \in {t \in shorter : Len(t) = n - 1}, c \in Chars}

Contains(s, c) == \E i \in 1..Len(s) : s[i] = c

\* str::split('/'): the pieces between the separators; n separators give n + 1
\* pieces, empty pieces included.
RECURSIVE Split(_)
Split(s) ==
    IF ~Contains(s, "/") THEN <<s>>
    ELSE LET i == CHOOSE k \in 1..Len(s) : s[k] = "/" /\ \A j \in 1..(k - 1) : s[j] # "/"
         IN  <<SubSeq(s, 1, i - 1)>> \o Split(SubSeq(s, i + 1, Len(s)))

\* The literal "default".
DefaultNamespace == <<"d", "e", "f", "a", "u", "l", "t">>

-----------------------------------------------------------------------------
(* url.rs *)

\* Kubeconfig::read() gives Err or a configuration with its list of named
\* contexts; a named context has an optional context, a context an optional
\* namespace.
ContextNames == {"c1", "c2"}

NamedContexts ==
    [name : ContextNames, context : {None, Some([namespace |-> None]), Some([namespace |-> Some(<<"a">>)])}]

RECURSIVE SeqsUpTo(_, _)
SeqsUpTo(S, n) ==
    IF n = 0 THEN {<<>>}
    ELSE LET shorter == SeqsUpTo(S, n - 1)
         IN  shorter \cup {Append(s, x) : s \in {t \in shorter : Len(t) = n - 1}, x \in S}

KubeconfigReads ==
    {Err("kubeconfig")} \cup {Ok([contexts |-> cs]) : cs \in SeqsUpTo(NamedContexts, MaxContexts)}

\* Iterator::find: the first element that satisfies the predicate.
RECURSIVE FindContext(_, _)
FindContext(contexts, name) ==
    IF contexts = <<>> THEN None
    ELSE IF Head(contexts).name = name THEN Some(Head(contexts))
    ELSE FindContext(Tail(contexts), name)

\* A variant that takes the namespace of the first context of the configuration,
\* whatever its name.
determine_namespace_AnyContext(namespace, ctx, read) ==
    IF IsSome(namespace) THEN Unwrap(namespace)
    ELSE IF read.ok /\ read.val.contexts # <<>> /\ IsSome(Head(read.val.contexts).context)
              /\ IsSome(Unwrap(Head(read.val.contexts).context).namespace)
         THEN Unwrap(Unwrap(Head(read.val.contexts).context).namespace)
         ELSE DefaultNamespace

determine_namespace(namespace, ctx, read) ==
    IF IsSome(namespace) THEN Unwrap(namespace)
    ELSE IF read.ok
         THEN LET found == FindContext(read.val.contexts, ctx)
                  ns == IF IsSome(found) /\ IsSome(Unwrap(found).context)
                        THEN Unwrap(Unwrap(found).context).namespace
                        ELSE None
              IN  IF IsSome(ns) THEN Unwrap(ns) ELSE DefaultNamespace
         ELSE DefaultNamespace

IsPrefix(p, s) == Len(p) <= Len(s) /\ SubSeq(s, 1, Len(p)) = p

\* A variant that accepts a requested name that is a prefix of the plural name.
match_resource_Prefix(resource, api_resource) ==
    \/ IsPrefix(resource, api_resource.name)
    \/ api_resource.singular_name = resource
    \/ /\ IsSome(api_resource.short_names)
       /\ \E i \in 1..Len(Unwrap(api_resource.short_names)) :
              Unwrap(api_resource.short_names)[i] = resource
    \/ /\ IsSome(api_resource.group)
       /\ api_resource.name \o <<".">> \o Unwrap(api_resource.group) = resource

match_resource(resource, api_resource) ==
    \/ api_resource.name = resource
    \/ api_resource.singular_name = resource
    \/ /\ IsSome(api_resource.short_names)
       /\ \E i \in 1..Len(Unwrap(api_resource.short_names)) :
              Unwrap(api_resource.short_names)[i] = resource
    \/ /\ IsSome(api_resource.group)
       /\ api_resource.name \o <<".">> \o Unwrap(api_resource.group) = resource

RECURSIVE find_resource(_, _)
find_resource(resource, resources) ==
    IF resources = <<>> THEN None
    ELSE IF match_resource(resource, Head(resources)) THEN Some(Head(resources))
    ELSE find_resource(resource, Tail(resources))

EmptyUrl == [kind |-> "EmptyUrl"]
InvalidFormat(s) == [kind |-> "InvalidFormat", arg |-> s]
ResourceNotFound(s) == [kind |-> "ResourceNotFound", arg |-> s]

\* Whether parse reaches determine_namespace's Kubeconfig::read(): only the
\* one-segment arm calls it, with no namespace.
ReadsKubeconfig(u) == u # <<>> /\ Len(Split(u)) = 1

\* A variant that looks the resource up before it rejects the segment count.
parse_LookupFirst(u, ctx, resources, read) ==
    IF u = <<>> THEN Err(EmptyUrl)
    ELSE LET parts == Split(u)
             api_resource == find_resource(parts[1], resources)
         IN  IF ~IsSome(api_resource) THEN Err(ResourceNotFound(parts[1]))
             ELSE IF Len(parts) \notin {1, 2} THEN Err(InvalidFormat(u))
             ELSE Ok([resource |-> Unwrap(api_resource),
                      namespace |-> IF Len(parts) = 1
                                    THEN determine_namespace(None, ctx, read)
                                    ELSE parts[2]])

\* A variant that drops the namespace given for a resource that is not namespaced.
parse_DropClusterNamespace(u, ctx, resources, read) ==
    IF u = <<>> THEN Err(EmptyUrl)
    ELSE LET parts == Split(u)
         IN  IF Len(parts) \notin {1, 2} THEN Err(InvalidFormat(u))
             ELSE LET api_resource == find_resource(parts[1], resources)
                  IN  IF ~IsSome(api_resource) THEN Err(ResourceNotFound(parts[1]))
                      ELSE Ok([resource |-> Unwrap(api_resource),
                               namespace |-> IF Len(parts) = 1
                                             THEN determine_namespace(None, ctx, read)
                                             ELSE IF Unwrap(api_resource).namespaced
                                             THEN parts[2]
                                             ELSE <<>>])

\* KubernetesUrl::parse; read is what Kubeconfig::read() returns if called.
parse(u, ctx, resources, read) ==
    IF u = <<>> THEN Err(EmptyUrl)
    ELSE LET parts == Split(u)
         IN  IF Len(parts) \notin {1, 2} THEN Err(InvalidFormat(u))
             ELSE LET resource == parts[1]
                      namespace == IF Len(parts) = 1
                                   THEN determine_namespace(None, ctx, read)
                                   ELSE parts[2]
                      api_resource == find_resource(resource, resources)
                  IN  IF IsSome(api_resource)
                      THEN Ok([resource |-> Unwrap(api_resource), namespace |-> namespace])
                      ELSE Err(ResourceNotFound(resource))

-----------------------------------------------------------------------------
(* Descriptors the parser is exercised with *)

APIResource(name, singular, short, group, version, kind, namespaced) ==
    [name |-> name, singular_name |-> singular, short_names |-> short,
     group |-> group, version |-> version, kind |-> kind, namespaced |-> namespaced]

Descriptors ==
    { APIResource(<<"a", "a">>, <<"a", "a">>, None, None, None, "Kaa", TRUE),
      APIResource(<<"a">>, <<>>, Some(<< <<"a", "a">> >>), Some(<<"a">>), Some(<<"v">>), "Ka", FALSE),
      APIResource(<<"a">>, <<"a">>, Some(<<>>), Some(<<"a", "a">>), Some(<<"v">>), "Kb", TRUE) }

Urls == StringsUpTo(MaxUrlLen)
Catalogs == SeqsUpTo(Descriptors, MaxCatalog)

-----------------------------------------------------------------------------
(* The parser alone: every addressing string against every catalog *)

DiscoveryIdle ==
    /\ dpc = "idle"
    /\ inflight = {}
    /\ served = <<>>
    /\ pairs = <<>>
    /\ group_lists = <<>>
    /\ core_versions = <<>>
    /\ core_lists = <<>>
    /\ discovery = None

NoTable ==
    /\ cluster = <<>>
    /\ api = None
    /\ object_list = None
    /\ provider = None
    /\ scan_args = None
    /\ exec = None
    /\ batch = None

InitParse ==
    /\ DiscoveryIdle
    /\ NoTable
    /\ api_resources \in Catalogs
    /\ context \in ContextNames
    /\ url = None
    /\ kubeconfig = None
    /\ kubeurl = None

Parse ==
    /\ url = None
    /\ \E u \in Urls :
          \E read \in IF ReadsKubeconfig(u) THEN KubeconfigReads ELSE {Err("unread")} :
             /\ url' = Some(u)
             /\ kubeconfig' = IF ReadsKubeconfig(u) THEN Some(read) ELSE None
             /\ kubeurl' = Some(parse(u, context, api_resources, read))
    /\ UNCHANGED <<api_resources, context, discVars, tableVars>>

NextParse == Parse

SpecParse == InitParse /\ [][NextParse]_vars

-----------------------------------------------------------------------------
(* discover.rs *)

\* str::split_once('/'): the text before and after the first separator.
split_once(s) ==
    IF ~Contains(s, "/") THEN None
    ELSE LET i == CHOOSE k \in 1..Len(s) : s[k] = "/" /\ \A j \in 1..(k - 1) : s[j] # "/"
         IN  Some(<<SubSeq(s, 1, i - 1), SubSeq(s, i + 1, Len(s))>>)

RECURSIVE Flatten(_)
Flatten(ss) == IF ss = <<>> THEN <<>> ELSE Head(ss) \o Flatten(Tail(ss))

\* What the API server answers.  Its k-th group is named a..a (k letters); the
\* first group has two versions, the others one.
RECURSIVE Repeat(_, _)
Repeat(c, n) == IF n = 0 THEN <<>> ELSE <<c>> \o Repeat(c, n - 1)

ServerGroup(k) ==
    [versions |-> IF k = 1
                  THEN <<[group_version |-> <<"a", "/", "v">>], [group_version |-> <<"a", "/", "w">>]>>
                  ELSE <<[group_version |-> Repeat("a", k) \o <<"/", "v">>]>>]

\* The group lists: the first n groups of the server, or one group whose
\* group_version has no separator.
ApiGroupLists ==
    {[k \in 1..n |-> ServerGroup(k)] : n \in 0..MaxGroups}
        \cup {<<[versions |-> <<[group_version |-> <<"v">>]>>]>>}

CoreVersionNames == <<"v", "w", "x", "y">>
CoreVersionLists == {[k \in 1..n |-> <<CoreVersionNames[k]>>] : n \in 0..MaxCoreVersions}

\* The resource lists: the server leaves group and version unset.
Plain == APIResource(<<"a">>, <<"a">>, None, None, None, "Ka", TRUE)
Subresource == APIResource(<<"a", "/", "a">>, <<>>, None, None, None, "Ka", TRUE)
ResourceLists == {<<>>, <<Plain>>, <<Plain, Subresource>>}

ReqApiGroups == [kind |-> "api_groups"]
ReqGroupResources(i) == [kind |-> "api_group_resources", pair |-> i]
ReqCoreVersions == [kind |-> "core_api_versions"]
ReqCoreResources(i) == [kind |-> "core_api_resources", version |-> i]

\* The closure of `then` (discover.rs 46-59): `?` on the answer, then group and
\* version set from the group_version of the request.
GroupFuture(group_version, answer) ==
    IF ~answer.ok THEN answer
    ELSE LET gv == split_once(group_version)
         IN  Ok([i \in 1..Len(answer.val) |->
                    IF IsSome(gv)
                    THEN [answer.val[i] EXCEPT !.group = Some(Unwrap(gv)[1]),
                                               !.version = Some(Unwrap(gv)[2])]
                    ELSE answer.val[i]])

\* The closure of list_core_api_resources (discover.rs 71-79).
CoreFuture(version, answer) ==
    IF ~answer.ok THEN answer
    ELSE Ok([i \in 1..Len(answer.val) |->
                [answer.val[i] EXCEPT !.group = Some(<<"c", "o", "r", "e">>),
                                      !.version = Some(version)]])

\* Result::unwrap_or_default on the output of a future of `then`.
unwrap_or_default(r) == IF r.ok THEN r.val ELSE <<>>

\* What list_api_groups_resources collects (discover.rs 60-65).
list_api_groups_resources(outputs) ==
    Ok(Flatten([i \in 1..Len(outputs) |-> unwrap_or_default(outputs[i])]))

\* try_join_all once every future has its output, or one has failed: the
\* first error, or the outputs in the order of the futures.
AllReady(outputs) == \A i \in 1..Len(outputs) : IsSome(outputs[i])
Failed(outputs) == {i \in 1..Len(outputs) : IsSome(outputs[i]) /\ ~Unwrap(outputs[i]).ok}
\* A variant that waits for every future and drops the failed ones.
try_join_all_Tolerant(outputs) ==
    IF AllReady(outputs)
    THEN Some(Ok([i \in 1..Len(outputs) |-> unwrap_or_default(Unwrap(outputs[i]))]))
    ELSE None

try_join_all(outputs) ==
    IF Failed(outputs) # {}
    THEN Some(Unwrap(outputs[CHOOSE i \in Failed(outputs) : \A j \in Failed(outputs) : i <= j]))
    ELSE IF AllReady(outputs)
    THEN Some(Ok([i \in 1..Len(outputs) |-> Unwrap(outputs[i]).val]))
    ELSE None

IsSubresource(resource) == Contains(resource.name, "/")
NotSubresource(resource) == ~IsSubresource(resource)

\* A variant that filters the grouped resources only.
list_api_resources_FilterGrouped(grouped, core) ==
    IF ~grouped.ok THEN grouped
    ELSE IF ~core.ok THEN core
    ELSE Ok(SelectSeq(grouped.val, NotSubresource) \o core.val)

\* list_api_resources, given what its two calls returned (discover.rs 31-40).
list_api_resources(grouped, core) ==
    IF ~grouped.ok THEN grouped
    ELSE IF ~core.ok THEN core
    ELSE Ok(SelectSeq(grouped.val \o core.val, NotSubresource))

Answers(values, request) == {Err([request |-> request])} \cup {Ok(v) : v \in values}

\* list_api_resources is called: list_api_groups is sent.
StartDiscovery ==
    /\ dpc = "idle"
    /\ dpc' = "groups"
    /\ inflight' = {ReqApiGroups}
    /\ UNCHANGED <<served, pairs, group_lists, core_versions, core_lists, discovery, parseVars, tableVars>>

\* The request that follows the grouped pair number n: the next pair, or the
\* core versions once the stream of pairs has ended.
AfterPair(n, all) ==
    IF n < Len(all) THEN ReqGroupResources(n + 1) ELSE ReqCoreVersions

\* list_api_groups answers (discover.rs 43): an error ends the run; otherwise
\* the stream of pairs starts and its first future is polled.
ApiGroupsAnswer ==
    /\ dpc = "groups"
    /\ \E answer \in Answers(ApiGroupLists, ReqApiGroups) :
          /\ served' = Append(served, <<ReqApiGroups, answer>>)
          /\ IF answer.ok
             THEN LET gvs == Flatten([i \in 1..Len(answer.val) |->
                                [j \in 1..Len(answer.val[i].versions) |->
                                    answer.val[i].versions[j].group_version]])
                  IN  /\ pairs' = gvs
                      /\ inflight' = {AfterPair(0, gvs)}
                      /\ dpc' = IF gvs = <<>> THEN "core_versions" ELSE "grouped"
                      /\ discovery' = discovery
             ELSE /\ pairs' = pairs
                  /\ inflight' = {}
                  /\ dpc' = "failed"
                  /\ discovery' = Some(answer)
    /\ UNCHANGED <<group_lists, core_versions, core_lists, parseVars, tableVars>>

\* The request of the pending future of `then` is answered; `then` takes the
\* next pair, or the stream ends and list_core_api_versions is sent.
GroupResourcesAnswer ==
    /\ dpc = "grouped"
    /\ LET n == Len(group_lists) + 1
       IN  /\ ReqGroupResources(n) \in inflight
           /\ \E answer \in Answers(ResourceLists, ReqGroupResources(n)) :
                 /\ served' = Append(served, <<ReqGroupResources(n), answer>>)
                 /\ group_lists' = Append(group_lists, GroupFuture(pairs[n], answer))
                 /\ inflight' = {AfterPair(n, pairs)}
                 /\ dpc' = IF n < Len(pairs) THEN "grouped" ELSE "core_versions"
    /\ UNCHANGED <<pairs, core_versions, core_lists, discovery, parseVars, tableVars>>

\* What the run returns once try_join_all has its result.
Finish(joined) ==
    list_api_resources(list_api_groups_resources(group_lists),
                       IF joined.ok THEN Ok(Flatten(joined.val)) ELSE joined)

\* list_core_api_versions answers (discover.rs 69): an error ends the run;
\* otherwise try_join_all polls every future, which sends every request.
CoreVersionsAnswer ==
    /\ dpc = "core_versions"
    /\ \E answer \in Answers(CoreVersionLists, ReqCoreVersions) :
          /\ served' = Append(served, <<ReqCoreVersions, answer>>)
          /\ IF ~answer.ok
             THEN /\ dpc' = "failed"
                  /\ inflight' = {}
                  /\ discovery' = Some(answer)
                  /\ UNCHANGED <<core_versions, core_lists>>
             ELSE /\ core_versions' = answer.val
                  /\ core_lists' = [i \in 1..Len(answer.val) |-> None]
                  /\ IF answer.val = <<>>
                     THEN /\ dpc' = "done"
                          /\ inflight' = {}
                          /\ discovery' = Some(Finish(Unwrap(try_join_all(<<>>))))
                     ELSE /\ dpc' = "core"
                          /\ inflight' = {ReqCoreResources(i) : i \in 1..Len(answer.val)}
                          /\ discovery' = discovery
    /\ UNCHANGED <<pairs, group_lists, parseVars, tableVars>>

\* One request of try_join_all is answered; the first error ends the run and
\* drops the other futures, the last answer completes it.
CoreResourcesAnswer ==
    /\ dpc = "core"
    /\ \E i \in 1..Len(core_versions) :
          /\ ReqCoreResources(i) \in inflight
          /\ \E answer \in Answers(ResourceLists, ReqCoreResources(i)) :
                LET outputs == [core_lists EXCEPT ![i] = Some(CoreFuture(core_versions[i], answer))]
                    joined == try_join_all(outputs)
                IN  /\ served' = Append(served, <<ReqCoreResources(i), answer>>)
                    /\ core_lists' = outputs
                    /\ IF IsSome(joined)
                       THEN /\ inflight' = {}
                            /\ discovery' = Some(Finish(Unwrap(joined)))
                            /\ dpc' = IF Unwrap(joined).ok THEN "done" ELSE "failed"
                       ELSE /\ inflight' = inflight \ {ReqCoreResources(i)}
                            /\ discovery' = discovery
                            /\ dpc' = dpc
    /\ UNCHANGED <<pairs, group_lists, core_versions, parseVars, tableVars>>

InitDiscover ==
    /\ DiscoveryIdle
    /\ NoTable
    /\ api_resources = <<>>
    /\ context = "c1"
    /\ url = None
    /\ kubeconfig = None
    /\ kubeurl = None

NextDiscover ==
    \/ StartDiscovery
    \/ ApiGroupsAnswer
    \/ GroupResourcesAnswer
    \/ CoreVersionsAnswer
    \/ CoreResourcesAnswer

SpecDiscover == InitDiscover /\ [][NextDiscover]_vars

-----------------------------------------------------------------------------
(* provider.rs *)

Core == <<"c", "o", "r", "e">>
Namespaced == APIResource(<<"a", "a">>, <<"a", "a">>, None, Some(Core), Some(<<"v">>), "Kaa", TRUE)
ClusterWide == APIResource(<<"a">>, <<"a">>, None, Some(Core), Some(<<"v">>), "Ka", FALSE)
TableCatalog == <<Namespaced, ClusterWide>>

\* The objects of the cluster.  data stands for the fields of the object: the
\* top-level keys beside metadata, whether schema inference accepts the
\* serialized object, and whether the reader decodes it.
Fields(keys, infers, decodes) == [keys |-> keys, infers |-> infers, decodes |-> decodes]
Object(plural, namespace, data) ==
    [plural |-> plural, namespace |-> namespace, managed_fields |-> Some("m"), data |-> data]

ObjectKinds ==
    { Object(<<"a", "a">>, Some(<<"a">>), Fields(<<"spec">>, TRUE, TRUE)),
      Object(<<"a", "a">>, Some(DefaultNamespace), Fields(<<"spec", "status">>, TRUE, TRUE)),
      Object(<<"a", "a">>, Some(<<"a">>), Fields(<<"spec">>, TRUE, FALSE)),
      Object(<<"a", "a">>, Some(<<"a">>), Fields(<<"spec">>, FALSE, FALSE)),
      Object(<<"a">>, None, Fields(<<"spec">>, TRUE, TRUE)) }

\* A cluster: objects named 1, 2, ... in the order the server lists them.
Clusters ==
    {[i \in 1..Len(kinds) |-> [name |-> i] @@ kinds[i]] : kinds \in SeqsUpTo(ObjectKinds, MaxObjects)}

\* Api::namespaced_with and Api::all_with (provider.rs 79-83).
ApiNamespaced(namespace, api_resource) ==
    [scope |-> "namespaced", namespace |-> Some(namespace), resource |-> api_resource]
ApiAll(api_resource) == [scope |-> "all", namespace |-> None, resource |-> api_resource]

\* A variant that scopes every listing to the namespace.
ApiFor_AlwaysNamespaced(api_resource, namespace) == ApiNamespaced(namespace, api_resource)

ApiFor(api_resource, namespace) ==
    IF api_resource.namespaced
    THEN ApiNamespaced(namespace, api_resource)
    ELSE ApiAll(api_resource)

\* The objects the server lists for an Api: those of the resource, within the
\* namespace when the listing is scoped to one.
InScope(a, object) ==
    /\ object.plural = a.resource.name
    /\ a.scope = "namespaced" => object.namespace = a.namespace
ServerList(a, objects) ==
    LET F[n \in 0..Len(objects)] ==
            IF n = 0 THEN <<>>
            ELSE IF InScope(a, objects[n]) THEN Append(F[n - 1], objects[n]) ELSE F[n - 1]
    IN  F[Len(objects)]

\* list_api_resources: the answer of api.list with managed_fields cleared
\* (provider.rs 85-95).
ListAnswer(a, answer) ==
    IF answer.ok
    THEN Ok([i \in 1..Len(answer.val) |-> [answer.val[i] EXCEPT !.managed_fields = None]])
    ELSE Err([kind |-> "External", source |-> answer.err])

\* serde_json::json!(item).to_string(): one line, with the name of the object,
\* its top-level keys (managedFields lies under metadata) and its fields.
Json(item) ==
    [row |-> item.name,
     keys |-> <<"metadata">> \o item.data.keys,
     managed |-> IsSome(item.managed_fields),
     infers |-> item.data.infers,
     decodes |-> item.data.decodes]

\* infer_schema (provider.rs 44-49): the keys of all lines in the order of
\* their first appearance, or the error of infer_json_schema.
Columns(ndjson) ==
    LET F[n \in 0..Len(ndjson)] ==
            IF n = 0 THEN <<>>
            ELSE LET seen == {F[n - 1][i] : i \in 1..Len(F[n - 1])}
                     IsNew(k) == k \notin seen
                 IN  F[n - 1] \o SelectSeq(ndjson[n].keys, IsNew)
    IN  F[Len(ndjson)]
infer_schema(ndjson) ==
    IF \E i \in 1..Len(ndjson) : ~ndjson[i].infers
    THEN Err([kind |-> "External", source |-> "infer_json_schema"])
    ELSE Ok(Columns(ndjson))

NoItems(kubeurl_) ==
    [kind |-> "Plan", message |-> "No items found",
     resource |-> kubeurl_.resource.kind, namespace |-> kubeurl_.namespace]
InvalidUrl(u, e) == [kind |-> "Plan", message |-> "Invalid Kubernetes URL", url |-> u, source |-> e]

\* A variant that builds the table from an empty list.
AfterList_EmptyTable(parsed, listed) ==
    IF ~listed.ok THEN listed
    ELSE LET ndjson == [i \in 1..Len(listed.val) |-> Json(listed.val[i])]
             schema == infer_schema(ndjson)
         IN  IF ~schema.ok THEN schema
             ELSE Ok(Some([schema |-> schema.val, ndjson |-> ndjson]))

\* try_new after the listing (provider.rs 111-131).
AfterList(parsed, listed) ==
    IF ~listed.ok THEN listed
    ELSE IF listed.val = <<>> THEN Err(NoItems(parsed))
    ELSE LET ndjson == [i \in 1..Len(listed.val) |-> Json(listed.val[i])]
             schema == infer_schema(ndjson)
         IN  IF ~schema.ok THEN schema
             ELSE Ok(Some([schema |-> schema.val, ndjson |-> ndjson]))

\* The addressing strings and configurations the table is asked for with.
TableUrls ==
    { <<"a", "a">>, <<"a", "a", "/", "a">>, <<"a", "a", "/">>, <<"a">>, <<"a", "/", "a">>,
      <<"a", "/", "a", "a">>, <<>>, <<"a", "/", "a", "/", "a">>, <<".">> }
TableKubeconfigs ==
    { Err("kubeconfig"),
      Ok([contexts |-> <<>>]),
      Ok([contexts |-> <<[name |-> "c1", context |-> Some([namespace |-> Some(<<"a">>)])]>>]) }
ListOutcomes == {"listed", "failed"}

\* UrlTableFactory::try_new (provider.rs 101-131), for one table.
TryNew ==
    /\ provider = None
    /\ \E u \in TableUrls :
       \E read \in IF ReadsKubeconfig(u) THEN TableKubeconfigs ELSE {Err("unread")} :
          LET parsed == parse(u, context, api_resources, read)
          IN  /\ url' = Some(u)
              /\ kubeconfig' = IF ReadsKubeconfig(u) THEN Some(read) ELSE None
              /\ kubeurl' = Some(parsed)
              /\ IF ~parsed.ok
                 THEN /\ provider' = Some(Err(InvalidUrl(u, parsed.err)))
                      /\ UNCHANGED <<api, object_list>>
                 ELSE \E outcome \in ListOutcomes :
                         LET a == ApiFor(parsed.val.resource, parsed.val.namespace)
                             answer == IF outcome = "listed"
                                       THEN Ok(ServerList(a, cluster))
                                       ELSE Err("api.list")
                             listed == ListAnswer(a, answer)
                         IN  /\ api' = Some(a)
                             /\ object_list' = Some(listed)
                             /\ provider' = Some(AfterList(parsed.val, listed))
    /\ UNCHANGED <<api_resources, context, cluster, scan_args, exec, batch, discVars>>

\* with_batch_size(4096)
BatchSize == 4096

RecordBatch(schema, rows) == [schema |-> schema, rows |-> rows]

\* One item of the reader: the lines from..to decoded to the rows of one
\* batch, or the error of the decoder when a line of them does not decode.
ReadChunk(ndjson, schema, from, to) ==
    IF \A i \in from..to : ndjson[i].decodes
    THEN Ok(RecordBatch(schema, [i \in 1..(to - from + 1) |-> ndjson[from + i - 1].row]))
    ELSE Err([kind |-> "External", source |-> "json reader"])

\* The loop over the reader (provider.rs 193-206): the batches pushed, or the
\* error returned.
\* A variant that goes on with the next chunk after one that failed.
RECURSIVE ReadAll_SkipFailed(_, _, _, _)
ReadAll_SkipFailed(ndjson, schema, from, batches) ==
    IF from > Len(ndjson) THEN Ok(batches)
    ELSE LET to == IF from + BatchSize - 1 < Len(ndjson) THEN from + BatchSize - 1 ELSE Len(ndjson)
             batch_result == ReadChunk(ndjson, schema, from, to)
         IN  IF batch_result.ok
             THEN ReadAll_SkipFailed(ndjson, schema, to + 1, Append(batches, batch_result.val))
             ELSE IF batches # <<>> THEN ReadAll_SkipFailed(ndjson, schema, to + 1, batches)
             ELSE batch_result

RECURSIVE ReadAll(_, _, _, _)
ReadAll(ndjson, schema, from, batches) ==
    IF from > Len(ndjson) THEN Ok(batches)
    ELSE LET to == IF from + BatchSize - 1 < Len(ndjson) THEN from + BatchSize - 1 ELSE Len(ndjson)
             batch_result == ReadChunk(ndjson, schema, from, to)
         IN  IF batch_result.ok
             THEN ReadAll(ndjson, schema, to + 1, Append(batches, batch_result.val))
             ELSE IF batches # <<>> THEN Ok(batches)
             ELSE batch_result

concat_batches(schema, batches) ==
    RecordBatch(schema, Flatten([i \in 1..Len(batches) |-> batches[i].rows]))

\* A variant that returns the first batch of the reader.
record_batch_from_ndjson_FirstBatch(ndjson, schema) ==
    LET read == ReadAll(ndjson, schema, 1, <<>>)
    IN  IF ~read.ok THEN read
        ELSE IF read.val = <<>> THEN Ok(RecordBatch(schema, <<>>))
        ELSE Ok(read.val[1])

\* record_batch_from_ndjson (provider.rs 184-213).
record_batch_from_ndjson(ndjson, schema) ==
    LET read == ReadAll(ndjson, schema, 1, <<>>)
    IN  IF ~read.ok THEN read
        ELSE IF read.val = <<>> THEN Ok(RecordBatch(schema, <<>>))
        ELSE Ok(concat_batches(schema, read.val))

\* Schema::project: the fields at the indices (counted from 0), or an error
\* when an index is out of bounds.
project(schema, indices) ==
    IF \A i \in 1..Len(indices) : indices[i] < Len(schema)
    THEN Ok([i \in 1..Len(indices) |-> schema[indices[i] + 1]])
    ELSE Err("project index out of bounds")

KubernetesExec(schema, ndjson) == [schema |-> schema, ndjson |-> ndjson]

\* A variant that honours the limit.
scan_WithLimit(table, projection, filters, limit) ==
    LET schema == IF IsSome(projection) /\ project(table.schema, Unwrap(projection)).ok
                  THEN project(table.schema, Unwrap(projection)).val
                  ELSE table.schema
    IN  Ok(KubernetesExec(schema,
                          IF IsSome(limit) /\ Unwrap(limit) < Len(table.ndjson)
                          THEN SubSeq(table.ndjson, 1, Unwrap(limit))
                          ELSE table.ndjson))

\* A variant that fails on an invalid projection.
scan_Strict(table, projection, filters, limit) ==
    IF IsSome(projection) /\ ~project(table.schema, Unwrap(projection)).ok
    THEN project(table.schema, Unwrap(projection))
    ELSE Ok(KubernetesExec(IF IsSome(projection)
                           THEN project(table.schema, Unwrap(projection)).val
                           ELSE table.schema,
                           table.ndjson))

\* A variant that decodes the rows when the table is scanned.
scan_Eager(table, projection, filters, limit) ==
    LET schema == IF IsSome(projection) /\ project(table.schema, Unwrap(projection)).ok
                  THEN project(table.schema, Unwrap(projection)).val
                  ELSE table.schema
        decoded == record_batch_from_ndjson(table.ndjson, schema)
    IN  IF decoded.ok THEN Ok(KubernetesExec(schema, table.ndjson)) ELSE decoded

\* KubernetesTableProvider::scan (provider.rs 160-180).
scan(table, projection, filters, limit) ==
    LET projected_schema ==
            IF IsSome(projection)
            THEN LET projected == project(table.schema, Unwrap(projection))
                 IN  IF projected.ok THEN projected.val ELSE table.schema
            ELSE table.schema
    IN  Ok(KubernetesExec(projected_schema, table.ndjson))

\* The arguments of scan: column indices, filter expressions, a row limit.
ColumnIndices == 0..2
Projections == {None} \cup {Some(p) : p \in SeqsUpTo(ColumnIndices, MaxProjection)}
Filters == {<<>>, <<"spec = 1">>}
Limits == {None, Some(1)}

HasTable == IsSome(provider) /\ Unwrap(provider).ok
TheTable == Unwrap(Unwrap(provider).val)

Scan ==
    /\ HasTable
    /\ exec = None
    /\ \E projection \in Projections, filters \in Filters, limit \in Limits :
          /\ scan_args' = Some([projection |-> projection, filters |-> filters, limit |-> limit])
          /\ exec' = Some(scan(TheTable, projection, filters, limit))
    /\ UNCHANGED <<parseVars, discVars, cluster, api, object_list, provider, batch>>

HasExec == IsSome(exec) /\ Unwrap(exec).ok
TheExec == Unwrap(exec).val

\* KubernetesExec::execute (provider.rs 273-283).
Execute ==
    /\ HasExec
    /\ batch = None
    /\ batch' = Some(record_batch_from_ndjson(TheExec.ndjson, TheExec.schema))
    /\ UNCHANGED <<parseVars, discVars, cluster, api, object_list, provider, scan_args, exec>>

\* One table of one query: the factory holds a discovered catalog.
Init ==
    /\ DiscoveryIdle
    /\ api_resources = TableCatalog
    /\ context = "c1"
    /\ url = None
    /\ kubeconfig = None
    /\ kubeurl = None
    /\ cluster \in Clusters
    /\ api = None
    /\ object_list = None
    /\ provider = None
    /\ scan_args = None
    /\ exec = None
    /\ batch = None

Next ==
    \/ TryNew
    \/ Scan
    \/ Execute

Spec == Init /\ [][Next]_vars

\* The execution node alone: row-set blobs of up to MaxChunks full chunks and
\* one line more, with lines that do not decode at the places where a chunk
\* starts or ends.
BlobLengths == {0, 1, 2} \cup {k * BatchSize + d : k \in 1..MaxChunks, d \in {-1, 0, 1}}
ChunkEdges == {1, 2} \cup {k * BatchSize + d : k \in 1..MaxChunks, d \in {0, 1}}
Blob(n, bad) ==
    [i \in 1..n |-> [row |-> i, keys |-> <<"metadata", "spec">>, managed |-> FALSE,
                     infers |-> TRUE, decodes |-> i \notin bad]]
Blobs ==
    {Blob(n, bad) : <<n, bad>> \in {<<m, b>> \in BlobLengths \X SUBSET ChunkEdges :
                                        b \subseteq 1..m /\ Cardinality(b) <= 2}}
    \cup {Blob(n, {n}) : n \in BlobLengths \ {0}}

InitBatch ==
    /\ DiscoveryIdle
    /\ api_resources = TableCatalog
    /\ context = "c1"
    /\ url = None
    /\ kubeconfig = None
    /\ kubeurl = None
    /\ cluster = <<>>
    /\ api = None
    /\ object_list = None
    /\ provider = None
    /\ scan_args = None
    /\ exec \in {Some(Ok(KubernetesExec(<<"metadata", "spec">>, ndjson))) : ndjson \in Blobs}
    /\ batch = None

NextBatch == Execute

SpecBatch == InitBatch /\ [][NextBatch]_vars

-----------------------------------------------------------------------------
(* Claims about the parser, stated without Split and find_resource *)

Slashes(u) == {i \in 1..Len(u) : u[i] = "/"}
Min(S) == CHOOSE x \in S : \A y \in S : x <= y
\* The text before the first separator, and the text after it.
BeforeSlash(u) == IF Slashes(u) = {} THEN u ELSE SubSeq(u, 1, Min(Slashes(u)) - 1)
AfterSlash(u) == SubSeq(u, Min(Slashes(u)) + 1, Len(u))

\* Exact equality with one of the four names of a descriptor.
NamesOf(d) ==
    {d.name, d.singular_name}
        \cup (IF d.short_names = <<>> THEN {}
              ELSE {d.short_names[1][i] : i \in 1..Len(d.short_names[1])})
        \cup (IF d.group = <<>> THEN {} ELSE {d.name \o <<".">> \o d.group[1]})
Matching(r) == {i \in 1..Len(api_resources) : r \in NamesOf(api_resources[i])}

Parsed == IsSome(kubeurl)
TheUrl == Unwrap(url)
TheResult == Unwrap(kubeurl)

\* C1: the empty addressing string fails with EmptyUrl, and a non-empty one with
\* two or more separators (three or more segments) fails with InvalidFormat
\* carrying the string itself, whatever the catalog and the context.
C1_SegmentCountFirst ==
    Parsed =>
        /\ TheUrl = <<>> => TheResult = Err(EmptyUrl)
        /\ Cardinality(Slashes(TheUrl)) >= 2 => TheResult = Err(InvalidFormat(TheUrl))

\* A three-segment string whose first segment names no descriptor of a
\* non-empty catalog was parsed.
C1_Witness ==
    /\ Parsed
    /\ Cardinality(Slashes(TheUrl)) >= 2
    /\ api_resources # <<>>
    /\ Matching(BeforeSlash(TheUrl)) = {}
    /\ TheResult = Err(InvalidFormat(TheUrl))

\* C2: "r/n" with r matching a descriptor parses, and the namespace of the
\* reference is n, namespaced descriptor or not; the configuration is not read.
C2_ExplicitNamespace ==
    (Parsed /\ Cardinality(Slashes(TheUrl)) = 1 /\ Matching(BeforeSlash(TheUrl)) # {}) =>
        /\ TheResult.ok
        /\ TheResult.val.namespace = AfterSlash(TheUrl)
        /\ kubeconfig = None

\* "a/a" was parsed to a descriptor that is not namespaced.
C2_Witness ==
    /\ Parsed
    /\ Cardinality(Slashes(TheUrl)) = 1
    /\ TheResult.ok
    /\ ~TheResult.val.resource.namespaced
    /\ TheResult.val.namespace = <<"a">>

\* The namespace the configuration records for the context: that of the first
\* entry with the context's name, if it has one.
Entries == Unwrap(kubeconfig).val.contexts
Named == {i \in 1..Len(Entries) : Entries[i].name = context}
Recorded ==
    IF Unwrap(kubeconfig).ok /\ Named # {} /\ Entries[Min(Named)].context # <<>>
    THEN Entries[Min(Named)].context[1].namespace
    ELSE None

\* C3: "r" with r matching a descriptor parses, with the namespace the
\* configuration records for the context, or "default" when the configuration
\* cannot be read, has no such context, or records no namespace for it.
C3_DefaultNamespaceChain ==
    (Parsed /\ TheUrl # <<>> /\ Slashes(TheUrl) = {} /\ Matching(TheUrl) # {}) =>
        /\ TheResult.ok
        /\ kubeconfig # None
        /\ TheResult.val.namespace = IF Recorded # None THEN Recorded[1] ELSE DefaultNamespace

\* A one-segment string took the namespace of the context, which is not the
\* first context of the configuration.
C3_Witness ==
    /\ Parsed
    /\ TheUrl # <<>> /\ Slashes(TheUrl) = {}
    /\ TheResult.ok
    /\ Recorded # None
    /\ Min(Named) > 1
    /\ TheResult.val.namespace = <<"a">>

\* C4: a one- or two-segment string resolves to the first descriptor of the
\* catalog with a name exactly equal to the requested one, and fails with
\* ResourceNotFound carrying the requested name when there is none.
C4_FirstExactMatch ==
    (Parsed /\ TheUrl # <<>> /\ Cardinality(Slashes(TheUrl)) <= 1) =>
        LET r == BeforeSlash(TheUrl)
        IN  IF Matching(r) = {}
            THEN TheResult = Err(ResourceNotFound(r))
            ELSE TheResult.ok /\ TheResult.val.resource = api_resources[Min(Matching(r))]

\* Two different descriptors match the requested name and the first one won.
C4_Witness ==
    /\ Parsed
    /\ TheUrl # <<>> /\ Cardinality(Slashes(TheUrl)) <= 1
    /\ Cardinality(Matching(BeforeSlash(TheUrl))) = 2
    /\ api_resources[1] # api_resources[2]
    /\ TheResult.ok
    /\ TheResult.val.resource = api_resources[1]

\* The requested name is a proper prefix of a plural name and is not found.
C4_WitnessNoPrefix ==
    /\ Parsed
    /\ TheUrl = <<"a">>
    /\ api_resources = <<APIResource(<<"a", "a">>, <<"a", "a">>, None, None, None, "Kaa", TRUE)>>
    /\ TheResult = Err(ResourceNotFound(<<"a">>))

-----------------------------------------------------------------------------
(* Claims about discovery, stated on the answers of the API server *)

Discovered == IsSome(discovery) /\ Unwrap(discovery).ok
TheCatalog == Unwrap(discovery).val
ServedOf(kind) == {i \in 1..Len(served) : served[i][1].kind = kind}
ListingKinds == {"api_group_resources", "core_api_resources"}
HasSlash(name) == \E i \in 1..Len(name) : name[i] = "/"
\* The descriptors without a separator in an answered list.
Collections(list) == {j \in 1..Len(list) : ~HasSlash(list[j].name)}
SameButOrigin(d, e) ==
    /\ d.name = e.name /\ d.singular_name = e.singular_name /\ d.short_names = e.short_names
    /\ d.kind = e.kind /\ d.namespaced = e.namespaced
RECURSIVE Sum(_, _)
Sum(f, S) == IF S = {} THEN 0 ELSE LET x == CHOOSE y \in S : TRUE IN f[x] + Sum(f, S \ {x})
ListedOk == {i \in 1..Len(served) : served[i][1].kind \in ListingKinds /\ served[i][2].ok}

\* C5: a discovered catalog holds no descriptor with '/' in its plural name,
\* and holds every other descriptor of every listing that succeeded.
C5_NoSubresources ==
    Discovered =>
        /\ \A k \in 1..Len(TheCatalog) : ~HasSlash(TheCatalog[k].name)
        /\ \A i \in ListedOk : \A j \in Collections(served[i][2].val) :
              \E k \in 1..Len(TheCatalog) : SameButOrigin(TheCatalog[k], served[i][2].val[j])
        /\ Len(TheCatalog) =
              Sum([i \in ListedOk |-> Cardinality(Collections(served[i][2].val))], ListedOk)

\* Discovery succeeded after a grouped listing and a core listing each
\* returned a subresource beside a collection.
C5_Witness ==
    /\ Discovered
    /\ \E i \in ListedOk : served[i][1].kind = "api_group_resources"
                           /\ \E j \in 1..Len(served[i][2].val) : HasSlash(served[i][2].val[j].name)
    /\ \E i \in ListedOk : served[i][1].kind = "core_api_resources"
                           /\ \E j \in 1..Len(served[i][2].val) : HasSlash(served[i][2].val[j].name)
    /\ Len(TheCatalog) >= 2

\* The group and version the descriptors of a listing carry in the catalog.
GroupVersionsListed == served[Min(ServedOf("api_groups"))][2].val
PairText(n) ==
    Flatten([i \in 1..Len(GroupVersionsListed) |->
        [j \in 1..Len(GroupVersionsListed[i].versions) |->
            GroupVersionsListed[i].versions[j].group_version]])[n]
CoreText(n) == served[Min(ServedOf("core_api_versions"))][2].val[n]
OriginOf(request) ==
    IF request.kind = "core_api_resources"
    THEN <<Some(<<"c", "o", "r", "e">>), Some(CoreText(request.version))>>
    ELSE IF HasSlash(PairText(request.pair))
    THEN <<Some(BeforeSlash(PairText(request.pair))), Some(AfterSlash(PairText(request.pair)))>>
    ELSE <<None, None>>
FromOrigin(o) == {k \in 1..Len(TheCatalog) : <<TheCatalog[k].group, TheCatalog[k].version>> = o}
ListingsAnswered == {i \in 1..Len(served) : served[i][1].kind \in ListingKinds}
GroupedFailed == {i \in ServedOf("api_group_resources") : ~served[i][2].ok}
CoreFailed == {i \in ServedOf("core_api_resources") : ~served[i][2].ok}
\* Every request of the run was answered, and no request but grouped listings failed.
OnlyGroupedFailures ==
    /\ ServedOf("api_groups") # {} /\ served[Min(ServedOf("api_groups"))][2].ok
    /\ ServedOf("core_api_versions") # {} /\ served[Min(ServedOf("core_api_versions"))][2].ok
    /\ Cardinality(ServedOf("core_api_resources")) =
          Len(served[Min(ServedOf("core_api_versions"))][2].val)
    /\ CoreFailed = {}

\* C6: a failed grouped listing leaves discovery running and contributes no
\* descriptor, the other listings contributing all their collections; a failed
\* core listing makes discovery fail with its error.
C6_AsymmetricFailures ==
    /\ \A i \in CoreFailed : discovery = Some(served[i][2])
    /\ \A i \in GroupedFailed : discovery # Some(served[i][2])
    /\ OnlyGroupedFailures =>
          /\ Discovered
          /\ \A i \in ListingsAnswered :
                Cardinality(FromOrigin(OriginOf(served[i][1]))) =
                    IF served[i][2].ok THEN Cardinality(Collections(served[i][2].val)) ELSE 0

\* Discovery succeeded with descriptors of a grouped pair and of core although
\* the listing of another grouped pair failed.
C6_Witness ==
    /\ Discovered
    /\ GroupedFailed # {}
    /\ \E i \in ServedOf("api_group_resources") :
          served[i][2].ok /\ FromOrigin(OriginOf(served[i][1])) # {}
    /\ \E i \in ServedOf("core_api_resources") : FromOrigin(OriginOf(served[i][1])) # {}

\* Discovery failed with the error of a core listing while another core
\* listing was still unanswered.
C6_WitnessCoreFailure ==
    /\ IsSome(discovery) /\ ~Unwrap(discovery).ok
    /\ CoreFailed # {}
    /\ Cardinality(ServedOf("core_api_resources")) < Len(core_versions)

-----------------------------------------------------------------------------
(* Claims about the table provider and its execution node *)

Resolved == IsSome(kubeurl) /\ Unwrap(kubeurl).ok
TheReference == Unwrap(kubeurl).val
Listed == IsSome(object_list) /\ Unwrap(object_list).ok
TheItems == Unwrap(object_list).val

\* C7: when the addressing string parses and the listing succeeds with no
\* object, try_new fails with the plan error "No items found" naming the
\* resource and the namespace; a table exists only if an object was listed.
C7_NoItemsIsAnError ==
    /\ (Resolved /\ Listed /\ TheItems = <<>>) =>
          /\ IsSome(provider) /\ ~Unwrap(provider).ok
          /\ Unwrap(provider).err =
                [kind |-> "Plan", message |-> "No items found",
                 resource |-> TheReference.resource.kind, namespace |-> TheReference.namespace]
    /\ HasTable =>
          /\ Resolved /\ Listed /\ Len(TheItems) >= 1
          /\ Len(TheTable.ndjson) = Len(TheItems)

\* The cluster holds objects of the resource, the listing of the namespace
\* asked for has none, and try_new failed with "No items found".
C7_Witness ==
    /\ Resolved /\ Listed /\ TheItems = <<>>
    /\ \E i \in 1..Len(cluster) : cluster[i].plural = TheReference.resource.name
    /\ IsSome(provider) /\ ~Unwrap(provider).ok
    /\ Unwrap(provider).err.message = "No items found"

\* The names of the objects of a resource the cluster holds, in a namespace
\* or in all of them.
NamesIn(plural, namespaces) ==
    {cluster[i].name : i \in {j \in 1..Len(cluster) :
        cluster[j].plural = plural /\ cluster[j].namespace \in namespaces}}
AllNamespaces == {cluster[i].namespace : i \in 1..Len(cluster)}
NamesListed == {TheItems[i].name : i \in 1..Len(TheItems)}

\* C8: the listing is scoped to the namespace of the reference exactly when
\* the descriptor is namespaced; for a descriptor that is not, the objects
\* listed are those of the resource whatever the namespace of the reference.
C8_ListingScope ==
    IsSome(api) =>
        /\ Resolved
        /\ Unwrap(api).resource = TheReference.resource
        /\ TheReference.resource.namespaced <=> Unwrap(api).scope = "namespaced"
        /\ TheReference.resource.namespaced =>
              /\ Unwrap(api).namespace = Some(TheReference.namespace)
              /\ Listed => NamesListed = NamesIn(TheReference.resource.name, {Some(TheReference.namespace)})
        /\ ~TheReference.resource.namespaced =>
              /\ Unwrap(api).scope = "all"
              /\ Listed => NamesListed = NamesIn(TheReference.resource.name, AllNamespaces)

\* A reference to a resource that is not namespaced, with a namespace no
\* object of the cluster is in, listed the objects of the resource.
C8_Witness ==
    /\ IsSome(api) /\ Resolved /\ Listed
    /\ ~TheReference.resource.namespaced
    /\ TheReference.namespace = <<"a", "a">>
    /\ TheItems # <<>>

Scanned == IsSome(scan_args) /\ IsSome(exec)
TheProjection == Unwrap(scan_args).projection
ValidProjection ==
    /\ IsSome(TheProjection)
    /\ \A i \in 1..Len(Unwrap(TheProjection)) :
          Unwrap(TheProjection)[i] \in 0..(Len(TheTable.schema) - 1)

\* C9: scan succeeds with a node that holds the row-set blob of the table and
\* the schema of the table, or, for a projection with valid indices, the
\* columns at these indices; filters and limit change nothing.
C9_ScanNeverFails ==
    Scanned =>
        /\ Unwrap(exec).ok
        /\ TheExec.ndjson = TheTable.ndjson
        /\ IF ValidProjection
           THEN /\ Len(TheExec.schema) = Len(Unwrap(TheProjection))
                /\ \A i \in 1..Len(Unwrap(TheProjection)) :
                      TheExec.schema[i] = TheTable.schema[Unwrap(TheProjection)[i] + 1]
           ELSE TheExec.schema = TheTable.schema

\* scan was called with an index out of bounds in the projection, a filter and
\* a limit below the number of rows, and returned the whole table.
C9_Witness ==
    /\ Scanned
    /\ IsSome(TheProjection) /\ ~ValidProjection
    /\ Unwrap(scan_args).filters # <<>>
    /\ IsSome(Unwrap(scan_args).limit) /\ Unwrap(Unwrap(scan_args).limit) < Len(TheTable.ndjson)
    /\ Unwrap(exec).ok
    /\ TheExec.schema = TheTable.schema
    /\ TheExec.ndjson = TheTable.ndjson

\* scan was called with a projection that reorders two columns.
C9_WitnessProjected ==
    /\ Scanned
    /\ ValidProjection
    /\ Unwrap(TheProjection) = <<1, 0>>
    /\ TheExec.schema = <<"spec", "metadata">>

Executed == IsSome(batch)
WellFormed == \A i \in 1..Len(TheExec.ndjson) : TheExec.ndjson[i].decodes

\* C10: a row-set blob of N lines that all decode gives one batch of N rows
\* with the schema of the node, also for N above the chunk size of 4096 and
\* for N = 0.
C10_AllRows ==
    (Executed /\ WellFormed) =>
        /\ Unwrap(batch).ok
        /\ Unwrap(batch).val.schema = TheExec.schema
        /\ Len(Unwrap(batch).val.rows) = Len(TheExec.ndjson)
        /\ \A i \in 1..Len(TheExec.ndjson) : Unwrap(batch).val.rows[i] = TheExec.ndjson[i].row

\* A blob of more than two chunks of lines that all decode was materialized.
C10_Witness ==
    /\ Executed /\ WellFormed
    /\ Len(TheExec.ndjson) > 2 * BatchSize
    /\ Unwrap(batch).ok
    /\ Len(Unwrap(batch).val.rows) = Len(TheExec.ndjson)

\* The empty blob was materialized to no rows.
C10_WitnessEmpty ==
    /\ Executed
    /\ TheExec.ndjson = <<>>
    /\ Unwrap(batch) = Ok([schema |-> TheExec.schema, rows |-> <<>>])

\* The chunk of the first line that does not decode, chunks counted from 1.
Undecodable == {i \in 1..Len(TheExec.ndjson) : ~TheExec.ndjson[i].decodes}
FailingChunk == ((Min(Undecodable) - 1) \div BatchSize) + 1

\* C11: when the first chunk fails to parse, execution fails with the error of
\* the reader; when chunk k > 1 is the first to fail, execution succeeds with
\* the rows of the chunks 1..k-1 in order and no row of chunk k or later.
C11_TruncatesAtFailingChunk ==
    (Executed /\ Undecodable # {}) =>
        IF FailingChunk = 1
        THEN Unwrap(batch) = Err([kind |-> "External", source |-> "json reader"])
        ELSE /\ Unwrap(batch).ok
             /\ Len(Unwrap(batch).val.rows) = (FailingChunk - 1) * BatchSize
             /\ \A i \in 1..((FailingChunk - 1) * BatchSize) :
                   Unwrap(batch).val.rows[i] = TheExec.ndjson[i].row

\* The second of three chunks failed, the third would decode, and the result
\* is the rows of the first chunk.
C11_Witness ==
    /\ Executed
    /\ Len(TheExec.ndjson) > 2 * BatchSize
    /\ Undecodable # {}
    /\ FailingChunk = 2
    /\ \A i \in (2 * BatchSize + 1)..Len(TheExec.ndjson) : TheExec.ndjson[i].decodes
    /\ Unwrap(batch).ok
    /\ Len(Unwrap(batch).val.rows) = BatchSize

\* A line of the first chunk did not decode and execution failed.
C11_WitnessFirstChunk ==
    /\ Executed
    /\ Len(TheExec.ndjson) > BatchSize
    /\ Undecodable = {2}
    /\ ~Unwrap(batch).ok

\* The errors try_new reports: a plan error, the error of the listing, or
\* the error of schema inference.
ReaderError == [kind |-> "External", source |-> "json reader"]
NotARowError(e) == e.kind = "Plan" \/ e.source \in {"api.list", "infer_json_schema"}

\* C12: rows are decoded by execute only.  try_new builds the table whenever
\* objects were listed and their schema inferred, scan returns its node, also
\* when rows of the table do not decode, and the error of the reader is what
\* execute returns then.
C12_MaterializedOnExecute ==
    /\ (IsSome(provider) /\ ~Unwrap(provider).ok) => NotARowError(Unwrap(provider).err)
    /\ (Resolved /\ Listed /\ TheItems # <<>> /\ \A i \in 1..Len(TheItems) : TheItems[i].data.infers)
          => HasTable
    /\ IsSome(exec) => /\ Unwrap(exec).ok
                       /\ TheExec.ndjson = TheTable.ndjson
    /\ (Executed /\ ~Unwrap(batch).ok) =>
          /\ HasTable /\ HasExec
          /\ Unwrap(batch).err = ReaderError
          /\ \E i \in 1..Len(TheTable.ndjson) : ~TheTable.ndjson[i].decodes

\* A table with a row that does not decode was created and scanned without
\* error, and execute returned the error of the reader.
C12_Witness ==
    /\ HasTable
    /\ \E i \in 1..Len(TheTable.ndjson) : ~TheTable.ndjson[i].decodes
    /\ Scanned /\ Unwrap(exec).ok
    /\ Executed
    /\ Unwrap(batch) = Err(ReaderError)

\* The same table after scan and before execute: nothing is decoded yet.
C12_WitnessPlanned ==
    /\ HasTable
    /\ \E i \in 1..Len(TheTable.ndjson) : ~TheTable.ndjson[i].decodes
    /\ Scanned /\ Unwrap(exec).ok
    /\ batch = None

\* The listing requests of grouped pairs, and of core versions, in flight.
GroupedInFlight == {r \in inflight : r.kind = "api_group_resources"}
CoreInFlight == {r \in inflight : r.kind = "core_api_resources"}

\* C13: while the grouped pairs are being listed, the request of every pair
\* that has no answer yet is in flight, so that the number of requests in
\* flight at once has no bound but the number of pairs.
C13_AllPairsInFlight ==
    dpc = "grouped" =>
        \A i \in 1..Len(pairs) :
            i <= Len(group_lists) \/ ReqGroupResources(i) \in GroupedInFlight

\* What `then` does instead: it holds one pending future, so one request of
\* a grouped pair is in flight at a time, the one of the first pair without
\* an answer.
C13_OneGroupedRequestAtATime ==
    /\ Cardinality(GroupedInFlight) <= 1
    /\ dpc = "grouped" => GroupedInFlight = {ReqGroupResources(Len(group_lists) + 1)}

\* try_join_all on the core side does fan out: the request of every core
\* version without an answer is in flight.
C13_CoreFansOut ==
    dpc = "core" =>
        \A i \in 1..Len(core_versions) :
            IsSome(core_lists[i]) \/ ReqCoreResources(i) \in CoreInFlight

\* Several pairs wait for their answer and one request is in flight.
C13_WitnessSequential ==
    /\ dpc = "grouped"
    /\ Len(pairs) - Len(group_lists) >= 2
    /\ Cardinality(GroupedInFlight) = 1

====
